---- MODULE Spec2Model ----
(***************************************************************************)
(* Draw/edit engine of landstack (src/src/components/DrawTool.tsx) with    *)
(* the geometry helpers of src/src/lib/register-sw.ts and the host wiring  *)
(* of src/unnamed/part_001 (page) and src/src/components/MapView.tsx.      *)
(*                                                                         *)
(* One action per event handler.  React state is read as of the last       *)
(* render; a render completes between two user events.  The OpenLayers     *)
(* Draw/Modify interactions are library code: their effect on the sketch   *)
(* and on the feature geometry is written at the call site that triggers   *)
(* it.  Coordinates are points of a small integer grid; the geodesic       *)
(* length, bearing and area of ol/sphere are replaced by planar integer    *)
(* functions on that grid (see segmentLength, calculateBearing,            *)
(* polygonArea).                                                           *)
(*                                                                         *)
(* Spec is the engine with the panel's unit selectors left alone,          *)
(* SpecUnits adds the two selectors, SpecMeasure applies the drawend       *)
(* handler to features with rings of any length, SpecGeometry calls the    *)
(* pure helpers formatBearingCompact and polygonArea on bounded inputs,    *)
(* and SpecProxy is the tile proxy's GET handler                           *)
(* (src/src/app/api/proxy/route.ts) with its in-memory cache.              *)
(***************************************************************************)
EXTENDS FiniteSets, Integers, Sequences, TLC

\* ---------------------------------------------------------------- bounds
\* longest sketch (placed vertices) and deepest undo stack explored
MaxSketch == 3
MaxHist == 2

\* route.ts: MAX_CACHE_SIZE (1000 in the source) and CACHE_TTL (one hour in the
\* source) scaled down, and the last tick of the clock explored
MAX_CACHE_SIZE == 2
CACHE_TTL == 2
MaxTime == 3

\* the cacheKey values requested, the GET invocations that can be in flight at
\* once, and the response log of a server that has answered nothing yet
Keys == {"k1", "k2", "k3", "k4"}
Requests == {"r1", "r2"}
NoResponse == [status |-> "none", cache |-> "none", evicted |-> FALSE]

\* the map positions the pointer can click or drag to
Coords == {<<0, 0>>, <<1, 1>>}

GeometryTypes == {"Point", "LineString", "Polygon", "Rectangle"}

\* the units of the panel's selectors explored: two of DISTANCE_UNITS and two
\* of AREA_UNITS, the defaults first
DistanceUnits == {"m", "km"}
AreaUnits == {"ac", "ha"}

\* ------------------------------------------------------- sequence helpers
Last(s) == s[Len(s)]
Front(s) == SubSeq(s, 1, Len(s) - 1)
Abs(n) == IF n < 0 THEN -n ELSE n

\* number | null of a MeasureRow: <<>> is null, <<v>> is the number v
Null == <<>>
Some(v) == <<v>>

\* ---------------------------------------------------- geometry helpers
\* Math.abs(c1[0]-c2[0]) < tol && Math.abs(c1[1]-c2[1]) < tol; on the integer
\* grid two coordinates are closer than 1e-8 exactly when they are equal.
coordsEqual(c1, c2) == Abs(c1[1] - c2[1]) < 1 /\ Abs(c1[2] - c2[2]) < 1

\* getLength of the two-point line; planar stand-in: Manhattan distance in
\* grid units (0 exactly for coincident points, symmetric).
segmentLength(c1, c2) == Abs(c1[1] - c2[1]) + Abs(c1[2] - c2[2])

\* atan2-based bearing normalised to [0,360); on the grid the planar bearing
\* of the displacement, in whole degrees (atan2(0,0) = 0).
calculateBearing(c1, c2) ==
    LET dx == c2[1] - c1[1]
        dy == c2[2] - c1[2]
    IN  IF dx = 0 /\ dy >= 0 THEN 0
        ELSE IF dx > 0 /\ dy > 0 THEN 45
        ELSE IF dx > 0 /\ dy = 0 THEN 90
        ELSE IF dx > 0 /\ dy < 0 THEN 135
        ELSE IF dx = 0 /\ dy < 0 THEN 180
        ELSE IF dx < 0 /\ dy < 0 THEN 225
        ELSE IF dx < 0 /\ dy = 0 THEN 270
        ELSE 315

\* the ring sum of getArea (ol/sphere): every coordinate is paired with the
\* one before it and the first with the last, so the sum closes the ring
\* itself; planar stand-in for the geodesic term: the shoelace cross product
RECURSIVE Shoelace(_, _)
Shoelace(ring, i) ==
    IF i > Len(ring) THEN 0
    ELSE LET p == IF i = 1 THEN ring[Len(ring)] ELSE ring[i - 1]
         IN  p[1] * ring[i][2] - ring[i][1] * p[2] + Shoelace(ring, i + 1)

\* getArea of the polygon with this single ring; planar stand-in: twice the
\* absolute shoelace area.  There is no test of the ring's length.
polygonArea(ring) == Abs(Shoelace(ring, 1))

\* a bearing-formatter variant that prints the bearing itself, not the angle
\* within its quadrant
formatBearingCompact_fromNorth(deg) ==
    LET d == ((deg % 3600) + 3600) % 3600
    IN  [prefix |-> IF d <= 900 \/ d > 2700 THEN "N" ELSE "S",
         degrees |-> (d + 5) \div 10,
         suffix |-> IF d <= 1800 THEN "E" ELSE "W"]

\* formatBearingCompact(deg), deg in tenths of a degree: the prefix letter,
\* the integer Math.round(angle) prints, and the suffix letter of
\* `${prefix}${Math.round(angle)}°${suffix}`
formatBearingCompact(deg) ==
    LET d == ((deg % 3600) + 3600) % 3600
        q == IF d <= 900 THEN [prefix |-> "N", suffix |-> "E", angle |-> d]
             ELSE IF d <= 1800
             THEN [prefix |-> "S", suffix |-> "E", angle |-> 1800 - d]
             ELSE IF d <= 2700
             THEN [prefix |-> "S", suffix |-> "W", angle |-> d - 1800]
             ELSE [prefix |-> "N", suffix |-> "W", angle |-> 3600 - d]
    IN  [prefix |-> q.prefix,
         degrees |-> (q.angle + 5) \div 10,
         suffix |-> q.suffix]

\* ------------------------------------------------------------ features
\* currentFeatureRef.current; NoFeature is null.
NoFeature == [geom |-> "none", coords |-> <<>>]

MkFeature(g, cs) == [geom |-> g, coords |-> cs]

getGeomCoords(feature) ==
    IF feature.geom = "none" THEN <<>>
    ELSE feature.coords

\* geom.setCoordinates as doUndo/doRedo call it: only for Polygon and
\* LineString geometries; any other geometry keeps its coordinates.
SetCoordsIfLinePoly(feature, cs) ==
    IF feature.geom \in {"Polygon", "LineString"}
    THEN MkFeature(feature.geom, cs)
    ELSE feature

\* ------------------------------------------------------- label renderer
RECURSIVE LabelsFrom(_, _)
LabelsFrom(coords, i) ==
    IF i > Len(coords) THEN <<>>
    ELSE IF i = Len(coords) /\ coordsEqual(coords[i - 1], coords[i])
         THEN LabelsFrom(coords, i + 1)
         ELSE <<[from |-> coords[i - 1], to |-> coords[i],
                 dist |-> segmentLength(coords[i - 1], coords[i]),
                 brng |-> calculateBearing(coords[i - 1], coords[i])]>>
              \o LabelsFrom(coords, i + 1)

\* a label renderer that labels a lone vertex with a zero-length segment
rebuildLabels_loneVertex(coords) ==
    IF Len(coords) = 1
    THEN <<[from |-> coords[1], to |-> coords[1], dist |-> 0, brng |-> 0]>>
    ELSE LabelsFrom(coords, 2)

\* clearOverlays() followed by one addSegmentLabel per kept segment
rebuildLabels(coords) == LabelsFrom(coords, 2)

\* ----------------------------------------------------------- measurement
MeasureRowAt(coords, i) ==
    [x |-> coords[i][1], y |-> coords[i][2],
     segmentDist |-> IF i > 1 THEN Some(segmentLength(coords[i - 1], coords[i]))
                     ELSE Null,
     bearing |-> IF i > 1 THEN Some(calculateBearing(coords[i - 1], coords[i]))
                 ELSE Null]

RECURSIVE SumLen(_, _)
SumLen(coords, i) ==
    IF i > Len(coords) THEN 0
    ELSE segmentLength(coords[i - 1], coords[i]) + SumLen(coords, i + 1)

\* updateMeasurement that keeps the row of the closing duplicate
updateMeasurement_keepsClosing(coords, closed) ==
    LET newRows == [i \in 1..Len(coords) |-> MeasureRowAt(coords, i)]
    IN  [rows |-> newRows,
         isClosed |-> closed,
         totalDist |-> SumLen(coords, 2),
         totalArea |-> IF closed /\ Len(coords) >= 4
                       THEN polygonArea(coords) ELSE 0]

\* the four setState calls of updateMeasurement, as one record
updateMeasurement(coords, closed) ==
    LET newRows == [i \in 1..Len(coords) |-> MeasureRowAt(coords, i)]
        shown == IF closed /\ Len(newRows) > 1
                    /\ coordsEqual(coords[1], Last(coords))
                 THEN Front(newRows) ELSE newRows
    IN  [rows |-> shown,
         isClosed |-> closed,
         totalDist |-> SumLen(coords, 2),
         totalArea |-> IF closed /\ Len(coords) >= 4
                       THEN polygonArea(coords) ELSE 0]

NoMeasurement == [rows |-> <<>>, isClosed |-> FALSE, totalDist |-> 0, totalArea |-> 0]

\* ------------------------------------------------------------------ state
VARIABLES
    active,          \* prop active (host: activeTool === 'draw')
    geometryType,    \* prop geometryType (host: drawGeometryType)
    snapEnabled,     \* prop snapEnabled (host: drawSnapEnabled)
    isDrawing,       \* useState isDrawing
    hasGeometry,     \* useState hasGeometry
    rows,            \* useState rows
    totalDist,       \* useState totalDist
    totalArea,       \* useState totalArea
    isClosed,        \* useState isClosed
    undoStackRef,    \* undoStackRef.current
    redoStackRef,    \* redoStackRef.current
    currentFeatureRef, \* currentFeatureRef.current
    overlaysRef,     \* overlaysRef.current: the segment labels on the map
    sketchActive,    \* the Draw interaction holds a sketch feature
    sketchCoords,    \* vertices placed in that sketch (cursor vertex left out)
    sketchVertices,  \* let sketchVertices of the main effect
    modifying,       \* a Modify drag is in progress (between modifystart/modifyend)
    drawCanUndo,     \* host state drawCanUndo: last canUndo passed to onHistoryChange
    drawCanRedo,     \* host state drawCanRedo: last canRedo passed to onHistoryChange
    lastOp,          \* the handler that ran last, its branch, and the phase it ran in
    distUnit,        \* useState distUnit
    areaUnit,        \* useState areaUnit
    effDistUnit,     \* distUnit as captured by the handlers the main effect registered
    overlayUnit,     \* the unit the labels on the map are written in ("none": no label)
    input,           \* argument and result of the function a specification applies
                     \* (SpecMeasure: the feature handed to drawend)
    drawEndRing,     \* history: the ring drawend committed for the current feature
    CACHE,           \* route.ts CACHE: the Map's entries in insertion order
    pending,         \* per GET invocation, the cacheKey it awaits upstream for
    now,             \* Date.now(), in ticks
    lastResp         \* what the GET invocation that completed last did

vars == <<active, geometryType, snapEnabled, isDrawing, hasGeometry, rows,
          totalDist, totalArea, isClosed, undoStackRef, redoStackRef,
          currentFeatureRef, overlaysRef, sketchActive, sketchCoords,
          sketchVertices, modifying, drawCanUndo, drawCanRedo, lastOp,
          distUnit, areaUnit, effDistUnit, overlayUnit, input, drawEndRing,
          CACHE, pending, now, lastResp>>

props == <<active, geometryType, snapEnabled>>
measurement == <<rows, totalDist, totalArea, isClosed>>
history == <<undoStackRef, redoStackRef>>
reported == <<drawCanUndo, drawCanRedo>>
sketch == <<sketchActive, sketchCoords, sketchVertices>>
units == <<distUnit, areaUnit>>
labels == <<overlaysRef, overlayUnit>>
proxy == <<CACHE, pending, now, lastResp>>
engine == <<active, geometryType, snapEnabled, isDrawing, hasGeometry, rows,
            totalDist, totalArea, isClosed, undoStackRef, redoStackRef,
            currentFeatureRef, overlaysRef, sketchActive, sketchCoords,
            sketchVertices, modifying, drawCanUndo, drawCanRedo, lastOp,
            distUnit, areaUnit, effDistUnit, overlayUnit, drawEndRing>>

\* phase of the draw/edit state machine
Phase ==
    IF ~active THEN "Closed"
    ELSE IF sketchActive THEN "Sketching"
    ELSE IF currentFeatureRef # NoFeature THEN "Finished"
    ELSE "Idle"

Op(name) == [op |-> name, from |-> Phase]

Init ==
    /\ active = FALSE
    /\ geometryType = "Polygon"
    /\ snapEnabled = TRUE
    /\ isDrawing = FALSE
    /\ hasGeometry = FALSE
    /\ rows = <<>>
    /\ totalDist = 0
    /\ totalArea = 0
    /\ isClosed = FALSE
    /\ undoStackRef = <<>>
    /\ redoStackRef = <<>>
    /\ currentFeatureRef = NoFeature
    /\ overlaysRef = <<>>
    /\ sketchActive = FALSE
    /\ sketchCoords = <<>>
    /\ sketchVertices = <<>>
    /\ modifying = FALSE
    /\ drawCanUndo = FALSE
    /\ drawCanRedo = FALSE
    /\ lastOp = [op |-> "init", from |-> "Closed"]
    /\ distUnit = "m"
    /\ areaUnit = "ac"
    /\ effDistUnit = "m"
    /\ overlayUnit = "none"
    /\ input = NoFeature
    /\ drawEndRing = <<>>
    /\ CACHE = <<>>
    /\ pending = [r \in Requests |-> "idle"]
    /\ now = 0
    /\ lastResp = NoResponse

\* ------------------------------------------------------ shared fragments
\* setRows/setIsClosed/setTotalDist/setTotalArea with the result of
\* updateMeasurement(coords, closed)
SetMeasurement(m) ==
    /\ rows' = m.rows
    /\ isClosed' = m.isClosed
    /\ totalDist' = m.totalDist
    /\ totalArea' = m.totalArea

\* overlaysRef.current after clearOverlays()/addSegmentLabel: the labels and
\* the distance unit the addSegmentLabel that wrote them had in its closure
SetLabels(ls, unit) ==
    /\ overlaysRef' = ls
    /\ overlayUnit' = IF ls = <<>> THEN "none" ELSE unit

\* formatDistance(meters, unit) for the units explored: the digits toFixed
\* prints, as the integer they spell without the decimal point, the number
\* of decimals, and the suffix ('m' is the switch's default branch)
formatDistance(meters, unit) ==
    IF unit = "km"
    THEN [digits |-> (meters + 5) \div 10, decimals |-> 2, suffix |-> " km"]
    ELSE [digits |-> meters * 10, decimals |-> 1, suffix |-> " m"]

\* the text addSegmentLabel gives the labels ls when its closure holds unit
labelTexts(ls, unit) ==
    [i \in 1..Len(ls) |-> [dist |-> formatDistance(ls[i].dist, unit),
                           brng |-> ls[i].brng]]

\* getUndoState() over the given isDrawing and undo stack
getUndoState(drawing, undo) == IF drawing THEN TRUE ELSE Len(undo) > 0

\* notifyHistory() evaluated over the values the refs and isDrawing will
\* have when it runs
notifyHistory(drawing, undo, redo) ==
    /\ drawCanUndo' = getUndoState(drawing, undo)
    /\ drawCanRedo' = (~drawing /\ Len(redo) > 0)

\* pushUndo that does not call notifyHistory
pushUndo_noNotify(coords, drawing) ==
    /\ undoStackRef' = Append(undoStackRef, coords)
    /\ redoStackRef' = <<>>
    /\ UNCHANGED reported

\* pushUndo that leaves the redo stack as it is
pushUndo_keepRedo(coords, drawing) ==
    /\ undoStackRef' = Append(undoStackRef, coords)
    /\ redoStackRef' = redoStackRef
    /\ notifyHistory(drawing, Append(undoStackRef, coords), redoStackRef)

\* pushUndo(coords): push a copy, clear redo, notify
pushUndo(coords, drawing) ==
    /\ undoStackRef' = Append(undoStackRef, coords)
    /\ redoStackRef' = <<>>
    /\ notifyHistory(drawing, Append(undoStackRef, coords), <<>>)

\* a box ring that stops at the fourth corner
createBox_open(a, b) ==
    LET minx == IF a[1] < b[1] THEN a[1] ELSE b[1]
        maxx == IF a[1] < b[1] THEN b[1] ELSE a[1]
        miny == IF a[2] < b[2] THEN a[2] ELSE b[2]
        maxy == IF a[2] < b[2] THEN b[2] ELSE a[2]
    IN  <<(<<minx, miny>>), (<<maxx, miny>>), (<<maxx, maxy>>),
          (<<minx, maxy>>)>>

\* ------------------------------------------------- OpenLayers call sites
\* createBox(): the ring of the extent spanned by the anchor and the
\* opposite corner, bottom-left first, closed
createBox(a, b) ==
    LET minx == IF a[1] < b[1] THEN a[1] ELSE b[1]
        maxx == IF a[1] < b[1] THEN b[1] ELSE a[1]
        miny == IF a[2] < b[2] THEN a[2] ELSE b[2]
        maxy == IF a[2] < b[2] THEN b[2] ELSE a[2]
    IN  <<(<<minx, miny>>), (<<maxx, miny>>), (<<maxx, maxy>>),
          (<<minx, maxy>>), (<<minx, miny>>)>>

\* olType / geometryFunction chosen by the main effect: the geometry class
\* of the feature a finished sketch yields
olGeom(gt) ==
    IF gt = "Point" THEN "Point"
    ELSE IF gt = "LineString" THEN "LineString"
    ELSE "Polygon"

\* the ring of the feature handed to drawend: a LineString keeps the placed
\* vertices, a Polygon is closed with its first vertex, a Rectangle is the
\* box of the anchor and the finishing click
finishedCoords(gt, placed, c) ==
    IF gt = "Rectangle" THEN createBox(placed[1], c)
    ELSE IF gt = "Polygon" THEN Append(placed, placed[1])
    ELSE placed

\* fewest placed vertices the Draw interaction finishes with
minPoints(gt) == IF gt = "Polygon" THEN 3 ELSE IF gt = "LineString" THEN 2 ELSE 1

MkLabel(p, c) ==
    [from |-> p, to |-> c, dist |-> segmentLength(p, c),
     brng |-> calculateBearing(p, c)]

\* the geometry 'change' listener, label part: the labels it adds when the
\* sketch holds the placed vertices fixed (fixedCount = Len(fixed))
RECURSIVE sketchLabels(_, _, _)
sketchLabels(sv, fixed, isPoly) ==
    IF isPoly \/ Len(sv) >= Len(fixed) THEN <<>>
    ELSE LET idx == Len(sv) + 1
         IN  (IF idx > 1 THEN <<MkLabel(fixed[idx - 1], fixed[idx])>> ELSE <<>>)
             \o sketchLabels(Append(sv, fixed[idx]), fixed, isPoly)

\* the same listener, sketchVertices part
sketchVerticesAfter(sv, fixed, isPoly) ==
    IF isPoly \/ Len(sv) >= Len(fixed) THEN sv
    ELSE sv \o SubSeq(fixed, Len(sv) + 1, Len(fixed))

\* geometry 'change' listener run for a sketch whose placed vertices are fixed
OnSketchChange(fixed) ==
    LET isPoly == geometryType \in {"Polygon", "Rectangle"}
    IN  /\ SetLabels(overlaysRef \o sketchLabels(sketchVertices, fixed, isPoly),
                      effDistUnit)
        /\ sketchVertices' = sketchVerticesAfter(sketchVertices, fixed, isPoly)

\* removeLastPoint that drops the whole sketch (abortDrawing)
removeLastPoint_abortsSketch ==
    /\ sketchActive' = FALSE
    /\ sketchCoords' = <<>>
    /\ UNCHANGED <<sketchVertices, labels>>

\* drawRef.current.removeLastPoint(): nothing without a sketch; drops the last
\* placed vertex; a sketch left without a placed vertex is aborted
removeLastPoint ==
    IF ~sketchActive
    THEN UNCHANGED <<sketchActive, sketchCoords, sketchVertices, labels>>
    ELSE IF Len(sketchCoords) >= 2
    THEN /\ sketchActive' = TRUE
         /\ sketchCoords' = Front(sketchCoords)
         /\ OnSketchChange(Front(sketchCoords))
    ELSE /\ sketchActive' = FALSE
         /\ sketchCoords' = <<>>
         /\ UNCHANGED <<sketchVertices, labels>>

\* cleanup that leaves the label overlays on the map
effectCleanup_keepsLabels ==
    /\ UNCHANGED labels
    /\ effDistUnit' = distUnit
    /\ currentFeatureRef' = NoFeature
    /\ drawEndRing' = <<>>
    /\ sketchActive' = FALSE
    /\ sketchCoords' = <<>>
    /\ sketchVertices' = <<>>

\* cleanup of the main effect, followed (when the tool stays open) by its
\* setup: the Draw interaction is removed, which aborts its sketch; the
\* handlers of the next setup capture the distUnit of this render
effectCleanup ==
    /\ SetLabels(<<>>, "none")
    /\ effDistUnit' = distUnit
    /\ currentFeatureRef' = NoFeature
    /\ drawEndRing' = <<>>
    /\ sketchActive' = FALSE
    /\ sketchCoords' = <<>>
    /\ sketchVertices' = <<>>

\* --------------------------------------------------------- undo / redo
\* doUndo that saves the popped ring, not the current one, for redo
doUndoRefs_savesPopped(feature, undo, redo) ==
    [feature |-> SetCoordsIfLinePoly(feature, Last(undo)),
     undo |-> Front(undo),
     redo |-> Append(redo, Last(undo))]

\* the ref updates of doUndo past its guards
doUndoRefs(feature, undo, redo) ==
    [feature |-> SetCoordsIfLinePoly(feature, Last(undo)),
     undo |-> Front(undo),
     redo |-> Append(redo, getGeomCoords(feature))]

\* the ref updates of doRedo past its guards
doRedoRefs(feature, undo, redo) ==
    [feature |-> SetCoordsIfLinePoly(feature, Last(redo)),
     undo |-> Append(undo, getGeomCoords(feature)),
     redo |-> Front(redo)]

\* doUndo's early return: no feature, or nothing on the undo stack
doUndoReturns == currentFeatureRef = NoFeature \/ Len(undoStackRef) = 0

\* doRedo's early return
doRedoReturns == currentFeatureRef = NoFeature \/ Len(redoStackRef) = 0

\* ---------------------------------------------------------------- actions
\* host: toggleTool('draw') / toolbar; the main effect runs its setup
OpenTool ==
    /\ ~active
    /\ UNCHANGED <<units, input, proxy>>
    /\ active' = TRUE
    /\ lastOp' = Op("open")
    /\ effectCleanup
    /\ UNCHANGED <<geometryType, snapEnabled, isDrawing, hasGeometry,
                   measurement, history, modifying, reported>>

\* a close whose cleanup also empties the two stacks
closeTool_clearsHistory ==
    /\ active' = FALSE
    /\ effectCleanup
    /\ undoStackRef' = <<>>
    /\ redoStackRef' = <<>>
    /\ UNCHANGED <<geometryType, snapEnabled, isDrawing, hasGeometry,
                   measurement, modifying, reported>>

\* onClose(): host sets activeTool to null; the main effect cleans up
closeTool ==
    /\ active' = FALSE
    /\ effectCleanup
    /\ UNCHANGED <<geometryType, snapEnabled, isDrawing, hasGeometry,
                   measurement, history, modifying, reported>>

\* Close / X button of the panel
CloseTool ==
    /\ active /\ ~modifying
    /\ UNCHANGED <<units, input, proxy>>
    /\ lastOp' = Op("close")
    /\ closeTool

\* DrawToolHandle.cancel
Cancel ==
    /\ ~modifying
    /\ UNCHANGED <<units, input, proxy>>
    /\ lastOp' = Op("cancel")
    /\ IF active THEN closeTool ELSE UNCHANGED <<props, isDrawing, hasGeometry,
            measurement, history, currentFeatureRef, labels, sketch,
            modifying, reported, effDistUnit, drawEndRing>>

\* host: shape keys 1-4, 'm', toolbar; the main effect re-runs
SetGeometryType(g) ==
    /\ active /\ ~modifying
    /\ UNCHANGED <<units, input, proxy>>
    /\ g # geometryType
    /\ geometryType' = g
    /\ lastOp' = Op("settype")
    /\ effectCleanup
    /\ UNCHANGED <<active, snapEnabled, isDrawing, hasGeometry, measurement,
                   history, modifying, reported>>

\* host: 's' key / toolbar toggle; the main effect re-runs
ToggleSnap ==
    /\ active /\ ~modifying
    /\ UNCHANGED <<units, input, proxy>>
    /\ snapEnabled' = ~snapEnabled
    /\ lastOp' = Op("snap")
    /\ effectCleanup
    /\ UNCHANGED <<active, geometryType, isDrawing, hasGeometry, measurement,
                   history, modifying, reported>>

\* drawstart that keeps the two stacks of the previous session
drawstart_keepsHistory ==
    /\ SetLabels(<<>>, "none")
    /\ SetMeasurement(NoMeasurement)
    /\ isDrawing' = TRUE
    /\ hasGeometry' = FALSE
    /\ currentFeatureRef' = NoFeature
    /\ drawEndRing' = <<>>
    /\ UNCHANGED history
    /\ sketchVertices' = <<>>
    /\ drawCanUndo' = TRUE
    /\ drawCanRedo' = FALSE

\* the body of draw.on('drawstart') up to the registration of the listener
drawstart ==
    /\ SetLabels(<<>>, "none")
    /\ SetMeasurement(NoMeasurement)
    /\ isDrawing' = TRUE
    /\ hasGeometry' = FALSE
    /\ currentFeatureRef' = NoFeature
    /\ drawEndRing' = <<>>
    /\ undoStackRef' = <<>>
    /\ redoStackRef' = <<>>
    /\ sketchVertices' = <<>>
    /\ drawCanUndo' = TRUE
    /\ drawCanRedo' = FALSE

\* first click of a LineString, Polygon or Rectangle: the Draw interaction
\* creates the sketch and dispatches drawstart
DrawStart(c) ==
    /\ active /\ ~modifying /\ ~sketchActive
    /\ UNCHANGED <<units, effDistUnit, input, proxy>>
    /\ geometryType # "Point"
    /\ lastOp' = Op("drawstart")
    /\ drawstart
    /\ sketchActive' = TRUE
    /\ sketchCoords' = <<c>>
    /\ UNCHANGED <<props, modifying>>

\* a vertex click that pushes the sketch's ring onto the undo stack
VertexClick_pushes(c) ==
    /\ active /\ sketchActive
    /\ UNCHANGED <<units, effDistUnit, drawEndRing, input, proxy>>
    /\ geometryType \in {"LineString", "Polygon"}
    /\ Len(sketchCoords) < MaxSketch
    /\ lastOp' = Op("click")
    /\ sketchCoords' = Append(sketchCoords, c)
    /\ OnSketchChange(Append(sketchCoords, c))
    /\ pushUndo(Append(sketchCoords, c), isDrawing)
    /\ UNCHANGED <<props, isDrawing, hasGeometry, measurement,
                   currentFeatureRef, sketchActive, modifying>>

\* a further click while sketching a LineString or Polygon
VertexClick(c) ==
    /\ active /\ sketchActive
    /\ UNCHANGED <<units, effDistUnit, drawEndRing, input, proxy>>
    /\ geometryType \in {"LineString", "Polygon"}
    /\ Len(sketchCoords) < MaxSketch
    /\ lastOp' = Op("click")
    /\ sketchCoords' = Append(sketchCoords, c)
    /\ OnSketchChange(Append(sketchCoords, c))
    /\ UNCHANGED <<props, isDrawing, hasGeometry, measurement, history,
                   currentFeatureRef, sketchActive, modifying, reported>>

\* Backspace that leaves the sketching state when no placed vertex is left
Backspace_leavesSketching ==
    /\ active /\ ~modifying
    /\ UNCHANGED <<units, effDistUnit, drawEndRing, input, proxy>>
    /\ isDrawing
    /\ lastOp' = Op("removelast")
    /\ removeLastPoint
    /\ isDrawing' = (Len(sketchCoords) >= 2)
    /\ UNCHANGED <<props, hasGeometry, measurement, history,
                   currentFeatureRef, modifying, reported>>

\* keydown Backspace
Backspace ==
    /\ active /\ ~modifying
    /\ UNCHANGED <<units, effDistUnit, drawEndRing, input, proxy>>
    /\ isDrawing
    /\ lastOp' = Op("removelast")
    /\ removeLastPoint
    /\ UNCHANGED <<props, isDrawing, hasGeometry, measurement, history,
                   currentFeatureRef, modifying, reported>>

\* Escape that closes the tool whatever the engine is doing
Escape_alwaysCloses ==
    /\ active /\ ~modifying
    /\ UNCHANGED <<units, input, proxy>>
    /\ lastOp' = Op("escclose")
    /\ closeTool

\* keydown Escape
Escape ==
    /\ active /\ ~modifying
    /\ UNCHANGED <<units, input, proxy>>
    /\ IF isDrawing
       THEN /\ lastOp' = Op("abort")
            /\ sketchActive' = FALSE
            /\ sketchCoords' = <<>>
            /\ isDrawing' = FALSE
            /\ UNCHANGED <<props, hasGeometry, measurement, history,
                           currentFeatureRef, labels, sketchVertices,
                           modifying, reported, effDistUnit, drawEndRing>>
       ELSE /\ lastOp' = Op("escclose")
            /\ closeTool

\* the unit-change effect, which React runs after a render in which distUnit,
\* active, hasGeometry or rebuildLabels changed: it rebuilds the labels of a
\* feature of two or more coordinates with the rebuildLabels of that render
unitEffectRebuilds(feature) ==
    /\ feature # NoFeature
    /\ Len(getGeomCoords(feature)) >= 2

\* the unit of the labels once drawend has run: the handler rebuilds them with
\* the rebuildLabels its effect captured; setHasGeometry(true) then changes
\* hasGeometry, so the unit-change effect rebuilds them with the current one
unitAfterDrawend(coords) ==
    IF ~hasGeometry /\ Len(coords) >= 2 THEN distUnit ELSE effDistUnit

\* drawend that computes the rows before the feature is closed (closed = false)
drawend_openRows(feature) ==
    LET coords == getGeomCoords(feature)
    IN  /\ isDrawing' = FALSE
        /\ hasGeometry' = TRUE
        /\ currentFeatureRef' = feature
        /\ drawEndRing' = coords
        /\ SetLabels(rebuildLabels(coords), unitAfterDrawend(coords))
        /\ SetMeasurement(updateMeasurement(coords, FALSE))
        /\ pushUndo(coords, FALSE)
        /\ sketchVertices' = <<>>
        /\ sketchActive' = FALSE
        /\ sketchCoords' = <<>>

\* the body of draw.on('drawend') for the finished feature
drawend(feature) ==
    LET coords == getGeomCoords(feature)
        closed == feature.geom = "Polygon" \/ geometryType = "Rectangle"
    IN  /\ isDrawing' = FALSE
        /\ hasGeometry' = TRUE
        /\ currentFeatureRef' = feature
        /\ drawEndRing' = coords
        /\ SetLabels(rebuildLabels(coords), unitAfterDrawend(coords))
        /\ SetMeasurement(updateMeasurement(coords, closed))
        /\ pushUndo(coords, FALSE)
        /\ sketchVertices' = <<>>
        /\ sketchActive' = FALSE
        /\ sketchCoords' = <<>>

\* the finishing click of a LineString, Polygon or Rectangle sketch
DrawEnd(c) ==
    /\ active /\ sketchActive
    /\ UNCHANGED <<units, effDistUnit, input, proxy>>
    /\ Len(sketchCoords) >= minPoints(geometryType)
    /\ geometryType = "Rectangle" \/ c = Last(sketchCoords)
    /\ lastOp' = Op("drawend")
    /\ drawend(MkFeature(olGeom(geometryType),
                         finishedCoords(geometryType, sketchCoords, c)))
    /\ UNCHANGED <<props, modifying>>

\* a click in Point mode: drawstart and drawend run in the same event
DrawPoint(c) ==
    /\ active /\ ~modifying /\ ~sketchActive
    /\ UNCHANGED <<units, effDistUnit, input, proxy>>
    /\ geometryType = "Point"
    /\ lastOp' = Op("drawpoint")
    /\ undoStackRef' = <<(<<c>>)>>
    /\ redoStackRef' = <<>>
    /\ drawCanUndo' = TRUE
    /\ drawCanRedo' = FALSE
    /\ isDrawing' = FALSE
    /\ hasGeometry' = TRUE
    /\ currentFeatureRef' = MkFeature("Point", <<c>>)
    /\ drawEndRing' = <<c>>
    /\ SetLabels(rebuildLabels(<<c>>), effDistUnit)
    /\ SetMeasurement(updateMeasurement(<<c>>, FALSE))
    /\ sketchVertices' = <<>>
    /\ sketchActive' = FALSE
    /\ sketchCoords' = <<>>
    /\ UNCHANGED <<props, modifying>>

\* modify.on('modifystart'): a vertex of the committed feature is grabbed
ModifyStart ==
    /\ active /\ ~modifying /\ ~sketchActive
    /\ UNCHANGED <<units, effDistUnit, drawEndRing, input, proxy>>
    /\ currentFeatureRef # NoFeature
    /\ Len(undoStackRef) < MaxHist
    /\ lastOp' = Op("modifystart")
    /\ pushUndo(getGeomCoords(currentFeatureRef), isDrawing)
    /\ modifying' = TRUE
    /\ UNCHANGED <<props, isDrawing, hasGeometry, measurement,
                   currentFeatureRef, labels, sketch>>

\* a drag that moves the grabbed vertex only
dragVertex_leavesClosing(feature, i, c) ==
    LET ring == feature.coords
        n == Len(ring)
    IN  [k \in 1..n |-> IF k = i THEN c ELSE ring[k]]

\* the ring after vertex i was dragged to c; the first vertex of a Polygon
\* ring takes the closing vertex with it
dragVertex(feature, i, c) ==
    LET ring == feature.coords
        n == Len(ring)
    IN  [k \in 1..n |->
            IF k = i \/ (feature.geom = "Polygon" /\ i = 1 /\ k = n)
            THEN c ELSE ring[k]]

\* modifyend that does not rebuild the labels
modifyend_staleLabels(feature) ==
    LET coords == getGeomCoords(feature)
        closed == feature.geom = "Polygon"
    IN  /\ currentFeatureRef' = feature
        /\ UNCHANGED labels
        /\ SetMeasurement(updateMeasurement(coords, closed))

\* the body of modify.on('modifyend') for the dragged feature
modifyend(feature) ==
    LET coords == getGeomCoords(feature)
        closed == feature.geom = "Polygon"
    IN  /\ currentFeatureRef' = feature
        /\ SetLabels(rebuildLabels(coords), effDistUnit)
        /\ SetMeasurement(updateMeasurement(coords, closed))

\* the drag ends with vertex i at c and the Modify interaction dispatches
\* modifyend
ModifyEnd(i, c) ==
    /\ modifying
    /\ UNCHANGED <<units, effDistUnit, drawEndRing, input, proxy>>
    /\ i \in 1..Len(currentFeatureRef.coords)
    /\ currentFeatureRef.geom = "Polygon" => i < Len(currentFeatureRef.coords)
    /\ lastOp' = Op("modifyend")
    /\ modifyend(MkFeature(currentFeatureRef.geom,
                           dragVertex(currentFeatureRef, i, c)))
    /\ modifying' = FALSE
    /\ UNCHANGED <<props, isDrawing, hasGeometry, history, sketch, reported>>

\* doUndo: handle, Ctrl+Z, Undo button
Undo ==
    /\ ~modifying
    /\ UNCHANGED <<units, effDistUnit, drawEndRing, input, proxy>>
    /\ IF isDrawing /\ active
       THEN /\ lastOp' = Op("undo_sketch")
            /\ removeLastPoint
            /\ UNCHANGED <<props, isDrawing, hasGeometry, measurement, history,
                           currentFeatureRef, modifying, reported>>
       ELSE IF doUndoReturns
       THEN /\ lastOp' = Op("undo_noop")
            /\ UNCHANGED <<props, isDrawing, hasGeometry, measurement, history,
                           currentFeatureRef, labels, sketch, modifying,
                           reported>>
       ELSE LET r == doUndoRefs(currentFeatureRef, undoStackRef, redoStackRef)
                prevCoords == Last(undoStackRef)
                closed == currentFeatureRef.geom = "Polygon"
            IN  /\ lastOp' = Op("undo_pop")
                /\ currentFeatureRef' = r.feature
                /\ undoStackRef' = r.undo
                /\ redoStackRef' = r.redo
                /\ SetLabels(rebuildLabels(prevCoords), distUnit)
                /\ SetMeasurement(updateMeasurement(prevCoords, closed))
                /\ notifyHistory(isDrawing, r.undo, r.redo)
                /\ UNCHANGED <<props, isDrawing, hasGeometry, sketch, modifying>>

\* doRedo: handle, Ctrl+Shift+Z, Redo button
Redo ==
    /\ ~modifying
    /\ UNCHANGED <<units, effDistUnit, drawEndRing, input, proxy>>
    /\ IF doRedoReturns
       THEN /\ lastOp' = Op("redo_noop")
            /\ UNCHANGED <<props, isDrawing, hasGeometry, measurement, history,
                           currentFeatureRef, labels, sketch, modifying,
                           reported>>
       ELSE LET r == doRedoRefs(currentFeatureRef, undoStackRef, redoStackRef)
                nextCoords == Last(redoStackRef)
                closed == currentFeatureRef.geom = "Polygon"
            IN  /\ lastOp' = Op("redo_pop")
                /\ currentFeatureRef' = r.feature
                /\ undoStackRef' = r.undo
                /\ redoStackRef' = r.redo
                /\ SetLabels(rebuildLabels(nextCoords), distUnit)
                /\ SetMeasurement(updateMeasurement(nextCoords, closed))
                /\ notifyHistory(isDrawing, r.undo, r.redo)
                /\ UNCHANGED <<props, isDrawing, hasGeometry, sketch, modifying>>

\* New button
New ==
    /\ active /\ ~modifying
    /\ UNCHANGED <<units, effDistUnit, input, proxy>>
    /\ lastOp' = Op("new")
    /\ SetLabels(<<>>, "none")
    /\ SetMeasurement(NoMeasurement)
    /\ hasGeometry' = FALSE
    /\ currentFeatureRef' = NoFeature
    /\ drawEndRing' = <<>>
    /\ undoStackRef' = <<>>
    /\ redoStackRef' = <<>>
    /\ notifyHistory(isDrawing, <<>>, <<>>)
    /\ UNCHANGED <<props, isDrawing, sketch, modifying>>

\* distance-unit selector of the panel; the unit-change effect then runs
SetDistUnit(u) ==
    /\ active /\ ~modifying
    /\ u # distUnit
    /\ distUnit' = u
    /\ lastOp' = Op("distunit")
    /\ IF hasGeometry /\ unitEffectRebuilds(currentFeatureRef)
       THEN SetLabels(rebuildLabels(getGeomCoords(currentFeatureRef)), u)
       ELSE UNCHANGED labels
    /\ UNCHANGED <<props, isDrawing, hasGeometry, measurement, history,
                   currentFeatureRef, sketch, modifying, reported, areaUnit,
                   effDistUnit, drawEndRing, input, proxy>>

\* area-unit selector of the panel; no effect depends on areaUnit
SetAreaUnit(u) ==
    /\ active /\ ~modifying
    /\ u # areaUnit
    /\ areaUnit' = u
    /\ lastOp' = Op("areaunit")
    /\ UNCHANGED <<props, isDrawing, hasGeometry, measurement, history,
                   currentFeatureRef, labels, sketch, modifying, reported,
                   distUnit, effDistUnit, drawEndRing, input, proxy>>

Next ==
    \/ OpenTool
    \/ CloseTool
    \/ Cancel
    \/ \E g \in GeometryTypes : SetGeometryType(g)
    \/ ToggleSnap
    \/ \E c \in Coords : DrawStart(c)
    \/ \E c \in Coords : VertexClick(c)
    \/ Backspace
    \/ Escape
    \/ \E c \in Coords : DrawEnd(c)
    \/ \E c \in Coords : DrawPoint(c)
    \/ ModifyStart
    \/ \E i \in 1..(MaxSketch + 2), c \in Coords : ModifyEnd(i, c)
    \/ Undo
    \/ Redo
    \/ New

\* the engine while the panel's unit selectors are left alone
Spec == Init /\ [][Next]_vars

\* the engine with the unit selectors in use.  The selectors write distUnit,
\* areaUnit and the labels only, so the steps of Next are the same in both
\* specifications apart from the unit the labels are written in.
NextUnits ==
    \/ Next
    \/ \E u \in DistanceUnits : SetDistUnit(u)
    \/ \E u \in AreaUnits : SetAreaUnit(u)

SpecUnits == Init /\ [][NextUnits]_vars

\* ------------------------------------------- drawend on arbitrary features
\* every coordinate sequence of at most n positions
RECURSIVE RingsUpTo(_)
RingsUpTo(n) ==
    IF n = 0 THEN {<<>>}
    ELSE LET shorter == RingsUpTo(n - 1)
         IN  shorter \cup {Append(r, c) : r \in {s \in shorter : Len(s) = n - 1},
                                          c \in Coords}

\* a sketch is in progress (drawstart has run) in some geometry mode and the
\* Draw interaction is about to hand drawend a feature of that mode's
\* geometry class whose ring holds any number of coordinates, none included
InitMeasure ==
    /\ active = TRUE
    /\ geometryType \in GeometryTypes
    /\ snapEnabled = TRUE
    /\ isDrawing = TRUE
    /\ hasGeometry = FALSE
    /\ rows = <<>>
    /\ totalDist = 0
    /\ totalArea = 0
    /\ isClosed = FALSE
    /\ undoStackRef = <<>>
    /\ redoStackRef = <<>>
    /\ currentFeatureRef = NoFeature
    /\ overlaysRef = <<>>
    /\ sketchActive = TRUE
    /\ sketchCoords = <<>>
    /\ sketchVertices = <<>>
    /\ modifying = FALSE
    /\ drawCanUndo = TRUE
    /\ drawCanRedo = FALSE
    /\ lastOp = [op |-> "drawstart", from |-> "Idle"]
    /\ distUnit = "m"
    /\ areaUnit = "ac"
    /\ effDistUnit = "m"
    /\ overlayUnit = "none"
    /\ input \in {MkFeature(olGeom(geometryType), cs) : cs \in RingsUpTo(MaxSketch + 1)}
    /\ drawEndRing = <<>>
    /\ CACHE = <<>>
    /\ pending = [r \in Requests |-> "idle"]
    /\ now = 0
    /\ lastResp = NoResponse

\* draw.on('drawend') called with the feature in input
HandDrawEnd ==
    /\ sketchActive
    /\ lastOp' = Op("drawend")
    /\ drawend(input)
    /\ UNCHANGED <<props, modifying, units, effDistUnit, input, proxy>>

NextMeasure == HandDrawEnd

SpecMeasure == InitMeasure /\ [][NextMeasure]_vars

\* ------------------------------------------------- the geometry helpers
\* bearings of [0,360) in tenths of a degree
Bearings == 0..3599

\* positions of a grid with three non-collinear points
GridCoords == {<<0, 0>>, <<1, 0>>, <<1, 1>>}

\* every non-empty ring of at most n grid positions
RECURSIVE GridRings(_)
GridRings(n) ==
    IF n = 1 THEN {<<c>> : c \in GridCoords}
    ELSE LET shorter == GridRings(n - 1)
         IN  shorter \cup {Append(r, c) : r \in {s \in shorter : Len(s) = n - 1},
                                          c \in GridCoords}

\* the tool is closed and one helper is about to be called: formatBearingCompact
\* with a bearing, or polygonArea and updateMeasurement with a ring
InitGeometry ==
    /\ active = FALSE
    /\ geometryType = "Polygon"
    /\ snapEnabled = TRUE
    /\ isDrawing = FALSE
    /\ hasGeometry = FALSE
    /\ rows = <<>>
    /\ totalDist = 0
    /\ totalArea = 0
    /\ isClosed = FALSE
    /\ undoStackRef = <<>>
    /\ redoStackRef = <<>>
    /\ currentFeatureRef = NoFeature
    /\ overlaysRef = <<>>
    /\ sketchActive = FALSE
    /\ sketchCoords = <<>>
    /\ sketchVertices = <<>>
    /\ modifying = FALSE
    /\ drawCanUndo = FALSE
    /\ drawCanRedo = FALSE
    /\ lastOp = [op |-> "init", from |-> "Closed"]
    /\ distUnit = "m"
    /\ areaUnit = "ac"
    /\ effDistUnit = "m"
    /\ overlayUnit = "none"
    /\ drawEndRing = <<>>
    /\ CACHE = <<>>
    /\ pending = [r \in Requests |-> "idle"]
    /\ now = 0
    /\ lastResp = NoResponse
    /\ input \in {[fn |-> "formatBearingCompact", arg |-> d, out |-> Null] :
                    d \in Bearings}
                 \cup {[fn |-> "polygonArea", arg |-> [ring |-> r, closed |-> b],
                        out |-> Null] :
                       r \in GridRings(MaxSketch + 1), b \in BOOLEAN}

\* formatBearingCompact(input.arg)
CallFormatBearingCompact ==
    /\ input.fn = "formatBearingCompact"
    /\ input.out = Null
    /\ input' = [input EXCEPT !.out = Some(formatBearingCompact(input.arg))]
    /\ UNCHANGED <<engine, proxy>>

\* polygonArea(ring), and the totalArea updateMeasurement(ring, closed) sets
CallPolygonArea ==
    /\ input.fn = "polygonArea"
    /\ input.out = Null
    /\ input' = [input EXCEPT !.out =
                    Some([area |-> polygonArea(input.arg.ring),
                          totalArea |-> updateMeasurement(input.arg.ring,
                                                          input.arg.closed).totalArea])]
    /\ UNCHANGED <<engine, proxy>>

NextGeometry ==
    \/ CallFormatBearingCompact
    \/ CallPolygonArea

SpecGeometry == InitGeometry /\ [][NextGeometry]_vars

\* ------------------------------------------------- the proxy route's cache
\* CACHE is the Map in its iteration order, which is the order in which the
\* keys were first inserted; an entry is [key, timestamp].

\* the position of cacheKey in the Map, 0 if absent (CACHE.get)
cacheIndex(c, k) ==
    IF \E i \in 1..Len(c) : c[i].key = k
    THEN CHOOSE i \in 1..Len(c) : c[i].key = k
    ELSE 0

\* CACHE.delete(cacheKey)
cacheDelete(c, k) == SelectSeq(c, LAMBDA e : e.key # k)

\* CACHE.set(cacheKey, entry): a key the Map holds keeps its place and gets the
\* new value, a new key goes to the end
cacheSet(c, k, t) ==
    LET i == cacheIndex(c, k)
        e == [key |-> k, timestamp |-> t]
    IN  IF i = 0 THEN Append(c, e) ELSE [c EXCEPT ![i] = e]

\* a cleanup that never deletes
cleanupCache_keepsAll(c) == c

\* cleanupCache(): above MAX_CACHE_SIZE, delete the first key of the Map
cleanupCache(c) == IF Len(c) > MAX_CACHE_SIZE THEN Tail(c) ELSE c

\* GET answers 400 before it looks at the cache: unknown profile, or no target URL
GetRejected ==
    /\ lastResp' = [status |-> "400", cache |-> "none", evicted |-> FALSE]
    /\ UNCHANGED <<CACHE, pending, now>>
    /\ UNCHANGED <<engine, input>>

\* GET up to its first await: the cache check (a fresh entry is answered as a
\* HIT, an expired one is deleted), then the credentials (none: 500), then the
\* upstream fetch is started
GetBegin(r, k, credentials) ==
    /\ pending[r] = "idle"
    /\ LET i == cacheIndex(CACHE, k)
       IN  IF i # 0 /\ now - CACHE[i].timestamp < CACHE_TTL
           THEN /\ lastResp' = [status |-> "200", cache |-> "HIT", evicted |-> FALSE]
                /\ UNCHANGED <<CACHE, pending>>
           ELSE /\ CACHE' = cacheDelete(CACHE, k)
                /\ IF credentials
                   THEN /\ pending' = [pending EXCEPT ![r] = k]
                        /\ UNCHANGED lastResp
                   ELSE /\ lastResp' = [status |-> "500", cache |-> "none",
                                        evicted |-> FALSE]
                        /\ UNCHANGED pending
    /\ UNCHANGED now
    /\ UNCHANGED <<engine, input>>

\* GET after the upstream answered: an ok response is stored and cleanupCache
\* runs in the same turn, any other status is passed on unstored, a failed
\* fetch is answered 502
GetEnd(r, upstream) ==
    /\ pending[r] # "idle"
    /\ pending' = [pending EXCEPT ![r] = "idle"]
    /\ IF upstream = "ok"
       THEN LET stored == cacheSet(CACHE, pending[r], now)
            IN  /\ CACHE' = cleanupCache(stored)
                /\ lastResp' = [status |-> "200", cache |-> "MISS",
                                evicted |-> Len(stored) > MAX_CACHE_SIZE]
       ELSE /\ UNCHANGED CACHE
            /\ lastResp' = [status |-> IF upstream = "throws" THEN "502" ELSE "404",
                            cache |-> IF upstream = "throws" THEN "none" ELSE "MISS",
                            evicted |-> FALSE]
    /\ UNCHANGED now
    /\ UNCHANGED <<engine, input>>

\* Date.now() advances
Tick ==
    /\ now < MaxTime
    /\ now' = now + 1
    /\ UNCHANGED <<CACHE, pending, lastResp>>
    /\ UNCHANGED <<engine, input>>

NextProxy ==
    \/ GetRejected
    \/ \E r \in Requests, k \in Keys, credentials \in BOOLEAN :
            GetBegin(r, k, credentials)
    \/ \E r \in Requests, upstream \in {"ok", "notOk", "throws"} :
            GetEnd(r, upstream)
    \/ Tick

SpecProxy == Init /\ [][NextProxy]_vars

\* ================================================================ claims
UndoOps == {"undo_sketch", "undo_noop", "undo_pop"}
RedoOps == {"redo_noop", "redo_pop"}
PushOps == {"drawend", "drawpoint", "modifystart"}

\* the step just taken ran the handler(s) named in ops
Ran(ops) == lastOp'.op \in ops

\* the committed feature's ring
ring == currentFeatureRef.coords

\* C1: right after every history push (drawend, also the one of a Point
\* click, and modifystart) the redo stack is empty.
C1_PushClearsRedo ==
    lastOp.op \in PushOps => redoStackRef = <<>>

\* a modify-start pushed on top of the draw-end snapshot
C1_Witness ==
    /\ lastOp.op = "modifystart"
    /\ Len(undoStackRef) = 2
    /\ redoStackRef = <<>>

\* C2 as stated: undo() in Finished with a non-empty undo stack pops the
\* top snapshot, pushes the ring it found onto redo and leaves the feature's
\* ring equal to the popped snapshot.
C2_UndoPops ==
    [][(Phase = "Finished" /\ Len(undoStackRef) > 0 /\ Ran(UndoOps))
       => /\ undoStackRef' = Front(undoStackRef)
          /\ redoStackRef' = Append(redoStackRef, ring)
          /\ ring' = Last(undoStackRef)]_vars

\* C3: in Finished with a non-empty undo stack, undo() runs past its guards,
\* redo() right after it runs past its guards too, and the feature's ring is
\* then the ring undo() started from.
C3_UndoRedoRoundTrip ==
    (Phase = "Finished" /\ ~modifying /\ Len(undoStackRef) > 0)
    => /\ ~(isDrawing /\ active)
       /\ ~doUndoReturns
       /\ LET u == doUndoRefs(currentFeatureRef, undoStackRef, redoStackRef)
              r == doRedoRefs(u.feature, u.undo, u.redo)
          IN  /\ u.feature # NoFeature /\ Len(u.redo) > 0
              /\ r.feature.coords = ring

\* a polygon dragged away from its pushed snapshot, so that undo changes it
C3_Witness ==
    /\ Phase = "Finished" /\ ~modifying
    /\ currentFeatureRef.geom = "Polygon"
    /\ Len(undoStackRef) > 0
    /\ Last(undoStackRef) # ring

\* C4: while a sketch is in progress undo() drops the last placed vertex
\* and nothing else, redo() changes nothing; both leave the two stacks alone.
C4_SketchUndoRedo ==
    [][(Phase = "Sketching")
       => /\ Ran(UndoOps) =>
               /\ lastOp'.op = "undo_sketch"
               /\ sketchCoords' = Front(sketchCoords)
               /\ UNCHANGED <<history, currentFeatureRef, measurement, reported,
                              isDrawing, props>>
          /\ Ran(RedoOps) =>
               /\ lastOp'.op = "redo_noop"
               /\ UNCHANGED <<history, currentFeatureRef, measurement, reported,
                              isDrawing, props, sketch, overlaysRef>>]_vars

\* undo() took a vertex off a sketch that still holds two
C4_Witness ==
    /\ lastOp = [op |-> "undo_sketch", from |-> "Sketching"]
    /\ sketchActive
    /\ Len(sketchCoords) = 2

\* C5 as stated: the canUndo last reported to the host is true exactly when
\* a sketch with at least one placed vertex is in progress or the undo stack
\* is non-empty.
C5_CanUndoExact ==
    drawCanUndo = ((sketchActive /\ Len(sketchCoords) >= 1) \/ Len(undoStackRef) > 0)

\* C6: the canRedo last reported to the host is true only when no sketch is
\* in progress (neither the flag nor the interaction's sketch) and the redo
\* stack is non-empty.
C6_CanRedoOnlyIf ==
    drawCanRedo => (~isDrawing /\ ~sketchActive /\ Len(redoStackRef) > 0)

\* canRedo was reported true after an undo of a committed feature
C6_Witness ==
    /\ drawCanRedo
    /\ Phase = "Finished"
    /\ lastOp.op = "undo_pop"
    /\ Len(redoStackRef) > 0

\* what C7 requires to stay as it is
C7_Frame == <<currentFeatureRef, undoStackRef, redoStackRef, rows, totalDist,
              totalArea, isClosed>>

\* C7: undo() on an empty undo stack in Finished, redo() on an empty redo
\* stack, and undo(), redo() or cancel() with neither sketch nor feature
\* leave the ring, both stacks and the measurement as they are.
C7_SafeNoOps ==
    [][/\ (Phase = "Finished" /\ Len(undoStackRef) = 0 /\ Ran(UndoOps))
           => (lastOp'.op = "undo_noop" /\ UNCHANGED C7_Frame)
       /\ (Len(redoStackRef) = 0 /\ Ran(RedoOps))
           => (lastOp'.op = "redo_noop" /\ UNCHANGED C7_Frame)
       /\ (Phase \in {"Idle", "Closed"} /\ Ran(UndoOps \cup RedoOps \cup {"cancel"}))
           => (lastOp'.op # "undo_pop" /\ lastOp'.op # "redo_pop"
               /\ UNCHANGED C7_Frame)]_vars

\* undo() was called on a committed feature whose undo stack was empty
C7_Witness ==
    /\ lastOp = [op |-> "undo_noop", from |-> "Finished"]
    /\ currentFeatureRef # NoFeature
    /\ undoStackRef = <<>>
    /\ Len(redoStackRef) > 0

\* cancel() was called on the closed tool while snapshots were still held
C7_WitnessCancel ==
    /\ lastOp = [op |-> "cancel", from |-> "Closed"]
    /\ Len(undoStackRef) > 0

\* C8: right after drawstart the previous feature, the labels, both stacks
\* and the measurement are gone and the one sketch holds the first click.
C8_DrawStartTearsDown ==
    lastOp.op = "drawstart"
    => /\ currentFeatureRef = NoFeature
       /\ overlaysRef = <<>>
       /\ undoStackRef = <<>> /\ redoStackRef = <<>>
       /\ rows = <<>> /\ totalDist = 0 /\ totalArea = 0 /\ ~isClosed
       /\ ~hasGeometry
       /\ isDrawing /\ sketchActive /\ Len(sketchCoords) = 1
       /\ sketchVertices = <<>>

\* a new session was started over a committed feature
C8_Witness ==
    /\ lastOp = [op |-> "drawstart", from |-> "Finished"]
    /\ sketchActive
    /\ currentFeatureRef = NoFeature

\* the committed state C9 describes: one snapshot equal to the ring, empty
\* redo, rows, totals and labels computed from the ring
C9_Committed ==
    /\ ~isDrawing' /\ ~sketchActive' /\ hasGeometry'
    /\ currentFeatureRef' # NoFeature
    /\ undoStackRef' = <<ring'>>
    /\ redoStackRef' = <<>>
    /\ overlaysRef' = rebuildLabels(ring')
    /\ LET m == updateMeasurement(ring', currentFeatureRef'.geom = "Polygon")
       IN  /\ rows' = m.rows /\ isClosed' = m.isClosed
           /\ totalDist' = m.totalDist /\ totalArea' = m.totalArea

\* C9: drawend takes the engine from Sketching to Finished with the sketch's
\* ring (a line's placed vertices, a polygon's placed vertices closed with
\* the first, a rectangle's closed five-coordinate box) as the feature.
C9_DrawEndCommits ==
    [][/\ Ran({"drawend"}) =>
             /\ Phase = "Sketching" /\ isDrawing
             /\ geometryType = "LineString" => ring' = sketchCoords
             /\ geometryType = "Polygon" => ring' = Append(sketchCoords, sketchCoords[1])
             /\ geometryType = "Rectangle" =>
                    (Len(ring') = 5 /\ ring'[1] = ring'[5] /\ sketchCoords[1] \in
                        {ring'[k] : k \in 1..4})
             /\ C9_Committed
       /\ Ran({"drawpoint"}) => (Len(ring') = 1 /\ C9_Committed)]_vars

\* a polygon was committed
C9_Witness ==
    /\ lastOp = [op |-> "drawend", from |-> "Sketching"]
    /\ currentFeatureRef.geom = "Polygon"
    /\ Len(ring) = 4
    /\ Len(undoStackRef) = 1
    /\ Len(overlaysRef) > 0

\* C10: modifystart happens in Finished and pushes the ring as it is before
\* the drag; modifyend leaves rows, totals and labels computed from the ring
\* as it is after the drag.
C10_ModifyPushesAndRecomputes ==
    [][/\ Ran({"modifystart"}) =>
             /\ Phase = "Finished"
             /\ undoStackRef' = Append(undoStackRef, ring)
             /\ ring' = ring
       /\ Ran({"modifyend"}) =>
             /\ Phase = "Finished"
             /\ overlaysRef' = rebuildLabels(ring')
             /\ LET m == updateMeasurement(ring', currentFeatureRef'.geom = "Polygon")
                IN  /\ rows' = m.rows /\ isClosed' = m.isClosed
                    /\ totalDist' = m.totalDist /\ totalArea' = m.totalArea]_vars

\* a drag ended with the ring away from the snapshot pushed at its start
C10_Witness ==
    /\ lastOp = [op |-> "modifyend", from |-> "Finished"]
    /\ Len(undoStackRef) >= 2
    /\ Last(undoStackRef) # ring
    /\ overlaysRef = rebuildLabels(ring)
    /\ Len(overlaysRef) > 0

\* the handlers that close the tool: Close button, DrawToolHandle.cancel and
\* Escape outside a sketch
CloseOps == {"close", "cancel", "escclose"}

\* C11: cancel/close, from a sketch as from a finished feature, leaves no
\* sketch and no label overlay and leaves the undo and redo stacks as they
\* were; of cancel, close and New it is New that empties the two stacks.
C11_CloseKeepsHistory ==
    [][/\ Ran(CloseOps)
          => /\ ~sketchActive'
             /\ sketchCoords' = <<>>
             /\ overlaysRef' = <<>>
             /\ UNCHANGED history
       /\ Ran({"new"})
          => /\ undoStackRef' = <<>>
             /\ redoStackRef' = <<>>]_vars

\* the tool was closed over a finished feature with both stacks non-empty
C11_Witness ==
    /\ lastOp.op \in CloseOps
    /\ lastOp.from = "Finished"
    /\ Len(undoStackRef) > 0
    /\ Len(redoStackRef) > 0
    /\ overlaysRef = <<>>

\* the tool was closed over a sketch with a label on the map
C11_WitnessSketch ==
    /\ lastOp.op \in CloseOps
    /\ lastOp.from = "Sketching"
    /\ Len(undoStackRef) = 0
    /\ ~sketchActive

\* C12 as stated: once the host has closed the tool the undo stack and the
\* redo stack are empty and no label overlay remains, and the same is true
\* of the reopened tool until a new feature is drawn.
C12_ClosedTornDown ==
    (Phase = "Closed" \/ lastOp.op = "open")
    => /\ undoStackRef = <<>>
       /\ redoStackRef = <<>>
       /\ overlaysRef = <<>>

\* remove-last-point as the engine offers it: Backspace, and undo mid-sketch
RemoveLastOps == {"removelast", "undo_sketch"}

\* C13: while the engine is sketching (isDrawing), remove-last-point drops
\* the last placed vertex if there is one and does nothing otherwise; at zero
\* placed points and below it still leaves the engine sketching, with an
\* empty ring, no committed feature and the two stacks untouched.
C13_RemoveLastToZero ==
    [][(isDrawing /\ active /\ Ran(RemoveLastOps))
       => /\ isDrawing' /\ active'
          /\ sketchCoords' = IF Len(sketchCoords) <= 1 THEN <<>>
                             ELSE Front(sketchCoords)
          /\ Len(sketchCoords) <= 1 => ~sketchActive'
          /\ UNCHANGED <<history, currentFeatureRef, measurement>>]_vars

\* remove-last-point ran once more after the sketch had lost its last vertex
C13_Witness ==
    /\ lastOp.op \in RemoveLastOps
    /\ lastOp.from = "Idle"
    /\ isDrawing
    /\ sketchCoords = <<>>
    /\ currentFeatureRef = NoFeature

EscapeOps == {"abort", "escclose"}

\* C14 as stated: Escape while sketching discards the sketch and returns to
\* Idle with the tool open, nothing committed and no history pushed; Escape
\* over a finished feature requests the close of the tool and the committed
\* feature is still there afterwards.
C14_EscapeKeepsFeature ==
    [][/\ (Phase = "Sketching" /\ Ran(EscapeOps))
          => /\ lastOp'.op = "abort"
             /\ Phase' = "Idle"
             /\ ~isDrawing'
             /\ currentFeatureRef' = NoFeature
             /\ UNCHANGED history
       /\ (Phase = "Finished" /\ Ran(EscapeOps))
          => /\ lastOp'.op = "escclose"
             /\ ~active'
             /\ currentFeatureRef' = currentFeatureRef]_vars

\* C14, amended: Escape while sketching discards the sketch and returns to
\* Idle with the tool open, nothing committed and no history pushed; Escape
\* over a finished feature closes the tool as cancel does: the committed
\* feature and its labels go with the tool's layer, the two stacks and the
\* measurement rows are left as they were.
C14_EscapeByPhase ==
    [][/\ (Phase = "Sketching" /\ Ran(EscapeOps))
          => /\ lastOp'.op = "abort"
             /\ Phase' = "Idle"
             /\ ~isDrawing'
             /\ currentFeatureRef' = NoFeature
             /\ UNCHANGED history
       /\ (Phase = "Finished" /\ Ran(EscapeOps))
          => /\ lastOp'.op = "escclose"
             /\ ~active'
             /\ currentFeatureRef' = NoFeature
             /\ overlaysRef' = <<>>
             /\ UNCHANGED <<history, measurement>>]_vars

\* Escape closed the tool over a finished feature whose history survives
C14_Witness ==
    /\ lastOp = [op |-> "escclose", from |-> "Finished"]
    /\ ~active
    /\ currentFeatureRef = NoFeature
    /\ Len(undoStackRef) > 0
    /\ Len(rows) > 0

\* Escape aborted a sketch of two placed vertices
C14_WitnessAbort ==
    /\ lastOp = [op |-> "abort", from |-> "Sketching"]
    /\ active
    /\ ~isDrawing
    /\ ~sketchActive
    /\ Len(sketchVertices) = 2

\* C15: whenever a Polygon or Rectangle feature is committed (after
\* draw-end, modify-end, undo or redo) its ring is closed: the last
\* coordinate equals the first.
C15_ClosedRing ==
    (Phase = "Finished" /\ currentFeatureRef.geom = "Polygon")
    => /\ Len(ring) >= 2
       /\ coordsEqual(ring[1], Last(ring))

\* a polygon whose first vertex was dragged and the drag then undone
C15_Witness ==
    /\ Phase = "Finished"
    /\ currentFeatureRef.geom = "Polygon"
    /\ lastOp.op = "undo_pop"
    /\ Len(redoStackRef) > 0
    /\ Last(redoStackRef)[1] # ring[1]
    /\ coordsEqual(ring[1], Last(ring))

\* C16: a committed ring has one measurement row per ring vertex, the
\* closing duplicate of a closed ring left out; the first row has neither
\* distance nor bearing, every other row has both.  A Polygon of three
\* clicked points therefore has a ring of 4 coordinates and 3 rows.
C16_OneRowPerVertex ==
    Phase = "Finished"
    => /\ Len(rows) = IF currentFeatureRef.geom = "Polygon"
                      THEN Len(ring) - 1 ELSE Len(ring)
       /\ Len(rows) >= 1
       /\ rows[1].segmentDist = Null /\ rows[1].bearing = Null
       /\ \A i \in 2..Len(rows) :
            rows[i].segmentDist # Null /\ rows[i].bearing # Null

\* a Polygon finished after three clicks: 4 ring coordinates, 3 rows
C16_Witness ==
    /\ lastOp = [op |-> "drawend", from |-> "Sketching"]
    /\ geometryType = "Polygon"
    /\ Len(ring) = 4
    /\ ring[2] # ring[1]
    /\ Len(rows) = 3

\* the ring is the closed, axis-aligned box spanned by the positions a and c:
\* 5 coordinates, the fifth equal to the first, every corner made of an x and
\* a y of the two positions, both positions among the corners, and each side
\* running along one axis
IsBoxOf(r, a, c) ==
    /\ Len(r) = 5
    /\ r[5] = r[1]
    /\ \A k \in 1..4 : r[k][1] \in {a[1], c[1]} /\ r[k][2] \in {a[2], c[2]}
    /\ \E k \in 1..4 : r[k] = a
    /\ \E k \in 1..4 : r[k] = c
    /\ \A k \in 1..4 : r[k][1] = r[k + 1][1] \/ r[k][2] = r[k + 1][2]
    /\ \A k \in 1..4 : a # c => r[k] # r[k + 1]

\* C17: a Rectangle sketch never holds more than its anchor, its second
\* click finishes it, and the committed ring is the closed 5-coordinate box
\* spanned by the anchor and that second click.
C17_RectangleTwoClicks ==
    [][/\ (geometryType' = "Rectangle" /\ sketchActive')
          => Len(sketchCoords') = 1
       /\ (geometryType = "Rectangle" /\ Ran({"drawend"}))
          => /\ Len(sketchCoords) = 1
             /\ currentFeatureRef'.geom = "Polygon"
             /\ \E c \in Coords : IsBoxOf(ring', sketchCoords[1], c)]_vars

\* a rectangle committed from two different clicks
C17_Witness ==
    /\ lastOp = [op |-> "drawend", from |-> "Sketching"]
    /\ geometryType = "Rectangle"
    /\ Len(ring) = 5
    /\ ring[3] # ring[1]
    /\ polygonArea(ring) > 0

\* C19 as stated: switching snapping off leaves the sketch in progress and
\* the committed ring in place, with the coordinates they had.
C19_SnapOffKeepsVertices ==
    [][(snapEnabled /\ Ran({"snap"}))
       => /\ ~snapEnabled'
          /\ UNCHANGED <<sketchActive, sketchCoords, currentFeatureRef>>]_vars

\* C18: drawend on a feature whose ring has 0 or 1 coordinates commits that
\* feature (empty or a single point) with total distance 0, area 0 and no
\* row carrying a distance, and the label renderer puts no segment label on
\* the map for a ring of fewer than 2 coordinates.
C18_DegenerateRing ==
    (lastOp.op \in {"drawend", "drawpoint"} /\ Len(ring) <= 1)
    => /\ hasGeometry /\ ~isDrawing
       /\ Len(undoStackRef) = 1 /\ Last(undoStackRef) = ring
       /\ totalDist = 0
       /\ totalArea = 0
       /\ Len(rows) = Len(ring)
       /\ \A i \in 1..Len(rows) : rows[i].segmentDist = Null
       /\ overlaysRef = <<>>
       /\ rebuildLabels(ring) = <<>>

\* drawend has committed a feature with an empty ring
C18_Witness ==
    /\ lastOp.op = "drawend"
    /\ currentFeatureRef = input
    /\ currentFeatureRef.geom = "Polygon"
    /\ Len(ring) = 0
    /\ hasGeometry

\* drawend has committed a feature with a single coordinate
C18_WitnessPoint ==
    /\ lastOp.op = "drawend"
    /\ currentFeatureRef = input
    /\ Len(ring) = 1
    /\ Len(rows) = 1

UnitOps == {"distunit", "areaunit"}

\* C20 as stated: after the distance unit or the area unit is changed over
\* a finished feature, the labels on the map are those of the current ring
\* written in the selected distance unit, and the committed ring, the undo
\* stack and the redo stack are what they were.
C20_UnitChangeRelabels ==
    [][(Phase = "Finished" /\ Ran(UnitOps))
       => /\ labelTexts(overlaysRef', overlayUnit')
             = labelTexts(rebuildLabels(ring), distUnit')
          /\ UNCHANGED <<currentFeatureRef, history>>]_vars

\* the steps that add or remove a vertex of the sketch in progress
SketchEditOps == {"click", "removelast", "undo_sketch"}

\* C21 as stated: every committed mutation pushes an entry onto the undo
\* stack, each vertex added to or removed from the sketch in progress
\* included.
C21_EveryMutationPushes ==
    [][((Ran(SketchEditOps) /\ sketchCoords' # sketchCoords)
        \/ Ran({"drawend", "drawpoint", "modifystart"}))
       => Len(undoStackRef') = Len(undoStackRef) + 1]_vars

\* C21, amended: an entry is pushed at draw-end (the committed ring, onto
\* the stack drawstart emptied) and at modify-start (the ring before the
\* drag); a vertex added to or removed from the sketch in progress and
\* modify-end push nothing.
C21_PushPoints ==
    [][/\ Ran({"drawend", "drawpoint"}) => undoStackRef' = <<ring'>>
       /\ Ran({"modifystart"}) => undoStackRef' = Append(undoStackRef, ring)
       /\ Ran(SketchEditOps \cup {"modifyend"}) => UNCHANGED history]_vars

\* three vertices placed, one removed again, and the undo stack still empty
C21_Witness ==
    /\ lastOp.op \in {"removelast", "undo_sketch"}
    /\ sketchActive
    /\ Len(sketchCoords) = 2
    /\ Len(sketchVertices) = 3
    /\ undoStackRef = <<>>

\* one label per pair of consecutive coordinates of r, the last pair left
\* out when r is closed (it ends at the closing duplicate of the first
\* vertex)
InteriorLabels(r, closed) ==
    LET n == IF closed THEN Len(r) - 2 ELSE Len(r) - 1
    IN  [i \in 1..(IF n > 0 THEN n ELSE 0) |-> MkLabel(r[i], r[i + 1])]

\* C24 as stated: a committed feature carries one segment label per pair of
\* consecutive ring coordinates, the closing segment of a closed ring
\* excepted; a polygon of k vertices carries k-1 labels.
C24_NoClosingLabel ==
    (lastOp.op \in {"drawend", "drawpoint", "modifyend", "undo_pop", "redo_pop"}
     /\ Phase = "Finished")
    => overlaysRef = InteriorLabels(ring, currentFeatureRef.geom = "Polygon")

\* the steps after which, by C25, no sketch is left
SketchEndOps == {"drawend", "drawpoint", "abort", "close", "cancel", "escclose",
                 "settype", "snap", "open"}

\* C25 as stated: after draw-end, abort, cancel/close, a change of geometry
\* type or snap setting, and after the tool is reopened, the sketch is gone
\* and isDrawing is false.
C25_FlagFollowsSketch ==
    lastOp.op \in SketchEndOps => (~sketchActive /\ ~isDrawing)

\* the steps that commit or change the committed ring
RingOps == {"drawend", "drawpoint", "modifyend", "undo_pop", "redo_pop"}

\* C26 as stated: in every Finished state reached by draw-end, modify-end,
\* undo or redo, the rows and the labels are those computed from the ring the
\* committed feature has, whatever its geometry type.
C26_DerivedFromRing ==
    (lastOp.op \in RingOps /\ Phase = "Finished")
    => /\ rows = updateMeasurement(ring, currentFeatureRef.geom = "Polygon").rows
       /\ totalDist = updateMeasurement(ring, currentFeatureRef.geom = "Polygon").totalDist
       /\ overlaysRef = rebuildLabels(ring)

\* C27 as stated: while a LineString is being sketched the labels on the
\* map are exactly the labels of the segments between consecutive placed
\* vertices of the sketch.
C27_SketchLabelsMatch ==
    (sketchActive /\ geometryType = "LineString")
    => overlaysRef = InteriorLabels(sketchCoords, FALSE)

\* C28 as stated: whenever the tool is open, the engine is not sketching and
\* the undo stack is non-empty, a committed feature exists, so that doUndo
\* runs past its guards.
C28_UndoHasFeature ==
    (active /\ ~isDrawing /\ Len(undoStackRef) > 0)
    => (currentFeatureRef # NoFeature /\ ~doUndoReturns)

\* the feature after doUndo has been called until the undo stack is empty
RECURSIVE UndoAll(_, _, _)
UndoAll(feature, undo, redo) ==
    IF Len(undo) = 0 THEN feature
    ELSE LET r == doUndoRefs(feature, undo, redo)
         IN  UndoAll(r.feature, r.undo, r.redo)

\* C29 as stated: in Finished state, whatever modify, undo and redo steps
\* came before, undoing until the undo stack is empty leaves the ring that
\* draw-end committed; either the stack is empty and the ring is that ring,
\* or the bottom entry of the stack is that ring.
C29_UndoAllRestoresDrawEnd ==
    (Phase = "Finished" /\ ~modifying)
    => /\ UndoAll(currentFeatureRef, undoStackRef, redoStackRef).coords = drawEndRing
       /\ IF Len(undoStackRef) = 0 THEN ring = drawEndRing
          ELSE undoStackRef[1] = drawEndRing

\* ---------------------------------------------------------------- C22
\* the number of decimal digits String(n) prints for an integer n >= 0
DigitsOf(n) == IF n < 10 THEN 1 ELSE IF n < 100 THEN 2 ELSE 3

\* the angle between a bearing and the north-south axis, in tenths of a degree
AxisAngle(d) ==
    IF d <= 900 THEN d
    ELSE IF d <= 2700 THEN Abs(d - 1800)
    ELSE 3600 - d

\* C22: for every bearing in [0,360), formatBearingCompact yields letter N or
\* S, an integer of one or two digits, the degree sign and letter E or W; the
\* integer is the rounded angle between the bearing and the north-south axis,
\* N/S names the nearer end of that axis and E/W the side the bearing lies on;
\* the boundaries 0, 90, 180 and 270 print N0E, N90E, S0E and S90W.
C22_CompactBearing ==
    (input.fn = "formatBearingCompact" /\ input.out # Null) =>
        LET d == input.arg
            o == input.out[1]
        IN  /\ o.prefix \in {"N", "S"}
            /\ o.suffix \in {"E", "W"}
            /\ o.degrees \in 0..90
            /\ DigitsOf(o.degrees) \in {1, 2}
            /\ o.degrees = (AxisAngle(d) + 5) \div 10
            /\ o.prefix = "N" => (d <= 900 \/ d >= 2700)
            /\ o.prefix = "S" => (d >= 900 /\ d <= 2700)
            /\ o.suffix = "E" => d <= 1800
            /\ o.suffix = "W" => (d >= 1800 \/ d = 0)
            /\ d = 0 => o = [prefix |-> "N", degrees |-> 0, suffix |-> "E"]
            /\ d = 900 => o = [prefix |-> "N", degrees |-> 90, suffix |-> "E"]
            /\ d = 1800 => o = [prefix |-> "S", degrees |-> 0, suffix |-> "E"]
            /\ d = 2700 => o = [prefix |-> "S", degrees |-> 90, suffix |-> "W"]

\* the bearing 270 has been formatted: S90W
C22_Witness ==
    /\ input.fn = "formatBearingCompact"
    /\ input.arg = 2700
    /\ input.out = Some([prefix |-> "S", degrees |-> 90, suffix |-> "W"])

\* ---------------------------------------------------------------- C23
\* C23: polygonArea of a ring with fewer than 4 coordinates is 0, and the
\* totalArea updateMeasurement reports is 0 whenever the ring is not closed or
\* has fewer than 4 coordinates.
C23_ShortRingNoArea ==
    (input.fn = "polygonArea" /\ input.out # Null) =>
        LET r == input.arg.ring
            o == input.out[1]
        IN  /\ Len(r) < 4 => o.area = 0
            /\ (~input.arg.closed \/ Len(r) < 4) => o.totalArea = 0

\* the part of C23 about the reported area alone
C23_ReportedAreaGuarded ==
    (input.fn = "polygonArea" /\ input.out # Null) =>
        ((~input.arg.closed \/ Len(input.arg.ring) < 4)
            => input.out[1].totalArea = 0)

\* ---------------------------------------------------------------- C30
\* the cacheKeys the Map holds
cacheKeys(c) == {c[i].key : i \in 1..Len(c)}

\* C30: whatever the handler does, the cache holds at most MAX_CACHE_SIZE
\* entries afterwards; a key enters the cache only in the step that answers an
\* ok upstream response, at the end of the Map; and when that insertion meets a
\* full cache the first-inserted entry, and nothing else, is evicted.
C30_CacheBounded ==
    [][ /\ Len(CACHE') <= MAX_CACHE_SIZE
        /\ \A k \in cacheKeys(CACHE') \ cacheKeys(CACHE) :
              /\ lastResp' = [status |-> "200", cache |-> "MISS",
                              evicted |-> Len(CACHE) = MAX_CACHE_SIZE]
              /\ \E r \in Requests : pending[r] = k /\ pending'[r] = "idle"
              /\ Last(CACHE') = [key |-> k, timestamp |-> now]
              /\ Front(CACHE') = IF Len(CACHE) = MAX_CACHE_SIZE
                                 THEN Tail(CACHE) ELSE CACHE
      ]_vars

\* an ok response has just been stored in a full cache and the oldest entry
\* went out
C30_Witness ==
    /\ lastResp = [status |-> "200", cache |-> "MISS", evicted |-> TRUE]
    /\ Len(CACHE) = MAX_CACHE_SIZE

====
